---- MODULE Spec2Model ----
(***************************************************************************)
(* appendfilename: inserting text into file names.                         *)
(*                                                                         *)
(* A file name is a sequence of one-character strings.  The two regular    *)
(* expressions of src/appendfilename/__init__.py are modelled by what      *)
(* Python's backtracking matcher computes for them: every quantifier is an *)
(* ordered list of candidate end offsets (lazy: shortest first, greedy:    *)
(* longest first, alternation: left to right) and the match is the first   *)
(* candidate for which the rest of the pattern succeeds.  An offset is the *)
(* number of characters consumed, 0..Len(s).                               *)
(***************************************************************************)
EXTENDS Integers, Sequences, FiniteSets, TLC

(***************************************************************************)
(* Bounds of the model.                                                    *)
(***************************************************************************)
\* the short names are all concatenations of at most MaxFrags fragments
MaxFrags == 4

(***************************************************************************)
(* Characters and character classes.                                       *)
(***************************************************************************)
NL == "\n"

Digits == {"0", "1", "2", "3", "4", "5", "6", "7", "8", "9"}

Lower == {"a", "b", "c", "d", "e", "f", "g", "h", "i", "j", "k", "l", "m",
          "n", "o", "p", "q", "r", "s", "t", "u", "v", "w", "x", "y", "z"}

Upper == {"A", "B", "C", "D", "E", "F", "G", "H", "I", "J", "K", "L", "M",
          "N", "O", "P", "Q", "R", "S", "T", "U", "V", "W", "X", "Y", "Z"}

\* \w of a str pattern, on the characters the model uses
WordChars == Digits \cup Lower \cup Upper \cup {"_"}

\* '.' of a pattern compiled without DOTALL: any character but a newline
DotMatches(c) == c # NL

\* the result of re.match when the pattern does not match (a match is a
\* non-empty tuple of groups)
NoMatch == << >>

\* the end offset of a sub-pattern that fails
Fail == -1

Min(S) == CHOOSE x \in S : \A y \in S : x <= y

Max(S) == CHOOSE x \in S : \A y \in S : x >= y

\* s[a+1 .. b] in offsets: the characters after offset a up to offset b
Slice(s, a, b) == SubSeq(s, a + 1, b)

\* the literal lit stands at offset i of s
LiteralAt(s, i, lit) ==
    /\ i + Len(lit) <= Len(s)
    /\ Slice(s, i, i + Len(lit)) = lit

\* every character of s after offset a up to offset b is matched by '.'
AllDot(s, a, b) == \A k \in (a + 1)..b : DotMatches(s[k])

(***************************************************************************)
(* Module constants.                                                       *)
(***************************************************************************)
FILENAME_TAG_SEPARATOR == <<" ", "-", "-", " ">>

DEFAULT_TEXT_SEPARATOR == <<" ">>

FILE_WITH_EXTENSION_BASENAME_INDEX == 1

FILE_WITH_EXTENSION_TAGS_AND_EXT_INDEX == 2

(***************************************************************************)
(* FILE_WITH_EXTENSION_REGEX: a lazy group 1 of any characters, then group *)
(* 2 = an optional tag block (the tag separator and a greedy run of any    *)
(* characters) and an optional extension (a dot and a lazy run of one or   *)
(* more word characters), then '$'.                                        *)
(***************************************************************************)
\* '$' without MULTILINE: at the end of the string, or just before a
\* newline that is the last character of the string
DollarAt(s, j) ==
    \/ j = Len(s)
    \/ j = Len(s) - 1 /\ s[Len(s)] = NL

\* the extension with a run of zero or more word characters
ExtensionEndEmptyRun(s, j) ==
    LET ends == {k \in (j + 1)..Len(s) :
                    /\ s[j + 1] = "."
                    /\ \A m \in (j + 2)..k : s[m] \in WordChars
                    /\ DollarAt(s, k)}
    IN IF ends # {} THEN Min(ends) ELSE Fail

\* the extension followed by '$', tried at offset j: a dot, then the lazy
\* run takes the fewest word characters (at least one) after which '$'
\* holds.  The end offset, or Fail.
ExtensionEnd(s, j) ==
    LET ends == {k \in (j + 2)..Len(s) :
                    /\ s[j + 1] = "."
                    /\ \A m \in (j + 2)..k : s[m] \in WordChars
                    /\ DollarAt(s, k)}
    IN IF ends # {} THEN Min(ends) ELSE Fail

\* the optional extension followed by '$', tried at offset j: the option
\* is greedy, so the extension is tried first and the empty match second.
OptExtensionEnd(s, j) ==
    IF ExtensionEnd(s, j) # Fail THEN ExtensionEnd(s, j)
    ELSE IF DollarAt(s, j) THEN j
    ELSE Fail

\* the tag block followed by the optional extension and '$', tried at
\* offset i: after the literal ' -- ' the greedy run takes the most
\* characters (none of them a newline) after which the rest succeeds.
TagsEnd(s, i) ==
    LET from == i + Len(FILENAME_TAG_SEPARATOR)
        ends == {j \in from..Len(s) :
                    /\ LiteralAt(s, i, FILENAME_TAG_SEPARATOR)
                    /\ AllDot(s, from, j)
                    /\ OptExtensionEnd(s, j) # Fail}
    IN IF ends # {} THEN OptExtensionEnd(s, Max(ends)) ELSE Fail

\* group 2 and '$' tried at offset i: the optional tag block is tried
\* first, then skipped.
SuffixEnd(s, i) ==
    IF TagsEnd(s, i) # Fail THEN TagsEnd(s, i) ELSE OptExtensionEnd(s, i)

\* the pattern with a greedy group 1, which takes the most characters
FILE_WITH_EXTENSION_REGEX_Greedy(s) ==
    LET starts == {i \in 0..Len(s) : AllDot(s, 0, i) /\ SuffixEnd(s, i) # Fail}
    IN IF starts = {} THEN NoMatch
       ELSE LET i == Max(starts)
            IN << Slice(s, 0, i), Slice(s, i, SuffixEnd(s, i)) >>

\* re.match(FILE_WITH_EXTENSION_REGEX, s): the lazy group 1 takes the fewest
\* characters (none of them a newline) after which group 2 and '$' match.
\* The groups 1 and 2 as a tuple, or NoMatch.
FILE_WITH_EXTENSION_REGEX(s) ==
    LET starts == {i \in 0..Len(s) : AllDot(s, 0, i) /\ SuffixEnd(s, i) # Fail}
    IN IF starts = {} THEN NoMatch
       ELSE LET i == Min(starts)
            IN << Slice(s, 0, i), Slice(s, i, SuffixEnd(s, i)) >>

(***************************************************************************)
(* WITHTIME_AND_SECONDS_PATTERN: '^', group 1 = one of four alternatives   *)
(* (date with optional time portion | YYYYMMDD | YYYY-MM | YYMMDD), then   *)
(* the named group timestamp_filename_seperator (one character of the      *)
(* class [- _.]), then a last group of one or more characters.             *)
(***************************************************************************)
\* the character at position p of s belongs to class
In(s, p, class) == p <= Len(s) /\ s[p] \in class

\* \d{n} after offset a
DigitsAt(s, a, n) == \A k \in 1..n : In(s, a + k, Digits)

\* [12]\d{3}-[01]\d after offset 0: the end offsets the pattern can reach
RE_YYYYdashMM(s) ==
    IF /\ In(s, 1, {"1", "2"}) /\ DigitsAt(s, 1, 3)
       /\ In(s, 5, {"-"})
       /\ In(s, 6, {"0", "1"}) /\ DigitsAt(s, 6, 1)
    THEN << 7 >> ELSE << >>

\* [12]\d{7} after offset 0
RE_YYYYMMDD(s) ==
    IF In(s, 1, {"1", "2"}) /\ DigitsAt(s, 1, 7) THEN << 8 >> ELSE << >>

\* \d{6} after offset 0
RE_YYMMDD(s) ==
    IF DigitsAt(s, 0, 6) THEN << 6 >> ELSE << >>

\* the introducers without the space
TimeIntroducersNoSpace == {"T", ":", "_", "-"}

\* the class [T :_-] that introduces the time portion
TimeIntroducers == {"T", " ", ":", "_", "-"}

\* the class [:.-] between hours, minutes and seconds
TimeDelimiters == {":", ".", "-"}

\* ([T :_-])([012]\d)([:.-])([012345]\d) after offset a
HoursMinutesAt(s, a) ==
    /\ In(s, a + 1, TimeIntroducers)
    /\ In(s, a + 2, {"0", "1", "2"}) /\ DigitsAt(s, a + 2, 1)
    /\ In(s, a + 4, TimeDelimiters)
    /\ In(s, a + 5, {"0", "1", "2", "3", "4", "5"}) /\ DigitsAt(s, a + 5, 1)

\* (([:.-])([012345]\d)) after offset a
SecondsAt(s, a) ==
    /\ In(s, a + 1, TimeDelimiters)
    /\ In(s, a + 2, {"0", "1", "2", "3", "4", "5"}) /\ DigitsAt(s, a + 2, 1)

\* RE_TIME_PORTION after offset a: the end offsets in the order the matcher
\* tries them, the optional seconds first (greedy), then without them
RE_TIME_PORTION(s, a) ==
    IF HoursMinutesAt(s, a)
    THEN (IF SecondsAt(s, a + 6) THEN << a + 9 >> ELSE << >>) \o << a + 6 >>
    ELSE << >>

\* [12]\d{3}-[01]\d-[0123]\d after offset 0
DateAt(s) ==
    /\ In(s, 1, {"1", "2"}) /\ DigitsAt(s, 1, 3)
    /\ In(s, 5, {"-"})
    /\ In(s, 6, {"0", "1"}) /\ DigitsAt(s, 6, 1)
    /\ In(s, 8, {"-"})
    /\ In(s, 9, {"0", "1", "2", "3"}) /\ DigitsAt(s, 9, 1)

\* the first alternative: the date, then the optional time portion, tried
\* first (greedy), then skipped
DateWithTime(s) ==
    IF DateAt(s) THEN RE_TIME_PORTION(s, 10) \o << 10 >> ELSE << >>

\* group 1: the end offsets of the alternatives in the order of the
\* alternation
TimestampEnds(s) ==
    DateWithTime(s) \o RE_YYYYMMDD(s) \o RE_YYYYdashMM(s) \o RE_YYMMDD(s)

\* the separators with the colon and the 'T' as well
TimestampSeparatorsAndColonT == {"-", " ", "_", ".", ":", "T"}

\* the class [- _.] of the group timestamp_filename_seperator
TimestampSeparators == {"-", " ", "_", "."}

\* the rest of the pattern after group 1 ended at offset e: one separator
\* character, then (.+), which needs one character that is not a newline
TailAt(s, e) ==
    /\ In(s, e + 1, TimestampSeparators)
    /\ e + 2 <= Len(s) /\ DotMatches(s[e + 2])

\* the end of the greedy (.+) that starts after offset a: it runs up to the
\* first newline or to the end of the string (nothing follows it in the
\* pattern, so it never gives a character back)
GreedyDotEnd(s, a) ==
    Max({j \in (a + 1)..Len(s) : AllDot(s, a, j)})

\* re.match(WITHTIME_AND_SECONDS_PATTERN, s): the first end offset of
\* group 1, in the matcher's order, after which the rest of the pattern
\* matches.  The tuple << group(1), group('timestamp_filename_seperator'),
\* groups()[-1] >>, or NoMatch.
WITHTIME_AND_SECONDS_PATTERN(s) ==
    LET ends == TimestampEnds(s)
        ok   == {n \in 1..Len(ends) : TailAt(s, ends[n])}
    IN IF ok = {} THEN NoMatch
       ELSE LET e == ends[Min(ok)]
            IN << Slice(s, 0, e), << s[e + 1] >>,
                  Slice(s, e + 1, GreedyDotEnd(s, e + 1)) >>

(***************************************************************************)
(* The inputs: file names, texts and separators.                           *)
(***************************************************************************)
\* the fragments the short names are built from: a word character, a dot,
\* the tag separator, a newline and a character that is neither a word
\* character nor a dot
Fragments ==
    { <<"a">>, <<".">>, FILENAME_TAG_SEPARATOR, <<NL>>, <<"-">> }

RECURSIVE Concats(_)
\* every concatenation of at most n fragments
Concats(n) ==
    IF n = 0 THEN { << >> }
    ELSE Concats(n - 1) \cup
         { f \o c : f \in Fragments, c \in Concats(n - 1) }

\* a directory entry is never named '', '.' or '..'
ShortNames == Concats(MaxFrags) \ { << >>, <<".">>, <<".", ".">> }

\* a head that the date alternative matches
DateHeads ==
    { <<"2", "0", "2", "1", "-", "1", "2", "-", "3", "1">> }

\* heads of the other three shapes, and near misses of all four
OtherHeads ==
    { <<"2", "0", "2", "1", "1", "2", "3", "1">>,
      <<"2", "0", "2", "1", "-", "1", "2">>,
      <<"2", "1", "1", "2", "3", "1">>,
      <<"3", "0", "2", "1", "-", "1", "2", "-", "3", "1">>,
      <<"2", "0", "2", "1", "-", "2", "2", "-", "3", "1">>,
      <<"2", "0", "2", "1", "-", "1", "2", "-", "4", "1">>,
      <<"3", "0", "2", "1", "1", "2", "3", "1">>,
      <<"2", "1", "1", "2", "3">>,
      <<"a">> }

\* a time portion put together from its five parts
TimePart(intro, hh, d, mm, sec) == <<intro>> \o hh \o <<d>> \o mm \o sec

\* time portions: every introducer with and without seconds, and every
\* delimiter with good and bad hours and minutes
TimeParts ==
    { TimePart(i, <<"1", "8">>, ".", <<"4", "8">>, sec) :
        i \in {"T", " ", ":", "_", "-", "@"},
        sec \in { << >>, <<".", "2", "2">>, <<".", "7", "2">> } }
    \cup
    { TimePart("T", hh, d, mm, << >>) :
        hh \in { <<"1", "8">>, <<"3", "8">> },
        d \in {":", ".", "-", "_"},
        mm \in { <<"4", "8">>, <<"6", "8">> } }

\* what follows the head: nothing, or one character
Followers == { << >>, <<" ">>, <<"_">>, <<"-">>, <<".">>, <<":">>, <<"T">>, <<"@">> }

\* what follows the follower
Rests ==
    { << >>,
      <<"a">>,
      <<"a", ".", "t">>,
      <<"a", "\n">>,
      <<" ", "-", "-", " ", "t">> }

\* names with something like a date/time-stamp at their start
StampNames ==
    ( { h \o t \o f \o r : h \in DateHeads, t \in TimeParts \cup { << >> },
                           f \in Followers, r \in Rests }
      \cup
      { h \o f \o r : h \in OtherHeads, f \in Followers, r \in Rests } )

\* the file names of the tests and of the usage text
ExampleNames ==
    { <<"t", "e", "s", "t">>,
      <<"t", "e", "s", "t", ".">>,
      <<"t", "e", "s", "t", ".", "t", "x", "t">>,
      <<"2", "0", "2", "1", "-", "1", "2", "-", "3", "1", ".", "t", "x", "t">>,
      <<"2", "0", "2", "1", "-", "1", "2", "-", "3", "1", "T", "1", "8", ".", "4", "8", ".", "2", "2", ".", "t", "x", "t">>,
      <<"2", "0", "2", "1", "1", "2", "3", "1", ".", "t", ".", "x", ".", "t">>,
      <<"2", "1", "1", "2", "3", "1", " ", "t", "e", "s", "t", ".", "l", "o", "n", "g", "e", "x", "t", "e", "n", "s", "i", "o", "n", "t", "e", "x", "t">>,
      <<"2", "0", "2", "1", "-", "1", "2", "-", "3", "1", "_", "t", "e", "s", "t", ".", "t", "x", "t">>,
      <<"2", "0", "2", "1", "-", "1", "2", "-", "3", "1", "T", "1", "8", ".", "4", "8", ".", "2", "2", "@", "t", "e", "s", "t", ".", "t", "x", "t">>,
      <<"2", "0", "2", "1", "1", "2", "3", "1", " ", "t", "e", "s", "t", ".", "t", "x", "t">>,
      <<"2", "0", "1", "2", "-", "1", "2", "_", "t", "e", "s", "t", ".", "t", "x", "t">>,
      <<"2", "1", "1", "2", "3", "1", "_", "t", "e", "s", "t", ".", "t", "x", "t">>,
      <<"2", "0", "2", "1", "-", "1", "2", "-", "3", "1", " ", "t", "e", "s", "t", ".", "t", "x", "t">>,
      <<"2", "0", "2", "1", "-", "1", "2", "-", "3", "1", "T", "1", "8", ".", "4", "8", ".", "2", "2", " ", "t", "e", "s", "t", ".", "t", "x", "t">>,
      <<"2", "0", "2", "1", "1", "2", "3", "1", "_", "t", "e", "s", "t", ".", "t", "x", "t">>,
      <<"2", "0", "2", "1", "-", "1", "2", "_", "t", "e", "s", "t", ".", "t", "x", "t">>,
      <<"r", "e", "p", "o", "r", "t", " ", "-", "-", " ", "d", "r", "a", "f", "t", " ", "f", "i", "n", "a", "l", ".", "p", "d", "f">>,
      <<"R", "E", "A", "D", "M", "E">>,
      <<"n", "a", "m", "e", " ", "-", "-", " ", "t", "a", "g", "1", " ", "t", "a", "g", "2", ".", "e", "x", "t">>,
      <<"t", "h", "e", " ", "p", "r", "e", "s", "e", "n", "t", "a", "t", "i", "o", "n", ".", "p", "p", "t", "x">>,
      <<"2", "0", "1", "3", "-", "0", "5", "-", "0", "9", "T", "1", "6", ".", "1", "7", "_", "i", "m", "g", "_", "0", "0", "0", "4", "2", " ", "-", "-", " ", "f", "u", "n", ".", "j", "p", "e", "g">> }

Names == ShortNames \cup StampNames \cup ExampleNames

\* values of --text (never empty)
Texts ==
    { <<"b", "o", "o", "k">>,
      <<"n", "e", "w">> }

\* values of --sep: the default, another character, and the empty string
Seps == { DEFAULT_TEXT_SEPARATOR, <<"_">>, << >> }

(***************************************************************************)
(* The state: the files named on the command line, the directory they are *)
(* in, the loop of main over them and the call of handle_file it makes.    *)
(***************************************************************************)
VARIABLES
    name,                \* path.name, the file name handle_file is given
    kind,                \* what the path is on disk: "file", "dir", "none"
    text,                \* args.text
    sep,                 \* args.sep
    prepend,             \* args.prepend
    smartprepend,        \* args.smartprepend
    dryrun,              \* args.dryrun
    files,               \* the names of the regular files of path.parent
    pc,                  \* handle_file: "idle", "call", "returned", "raised"
    old_basename,        \* local of handle_file: group 1 of components
    tags_with_extension, \* local of handle_file: group 2 of components
    match,               \* local of handle_file: the timestamp match
    num_errors,          \* first element of the returned pair
    newpath,             \* second element of the returned pair (its name)
    args_files,          \* args.files, the list main loops over
    args_kinds,          \* what each of args.files was on disk at the start
    loop_index,          \* how many of args.files the loop has taken
    main_pc,             \* main: "idle", "loop", "handling", "exited", "raised"
    main_num_errors,     \* local num_errors of main, Unset until assigned
    exit_status,         \* the exit status of the process, Unset until it ends
    dirs,                \* the names of the directories of path.parent
    links,               \* the symbolic links of path.parent: <<name, target>>
    sub_files,           \* the regular files of the directory the links point into
    handled,             \* the indices of args.files given to handle_file
    first                \* stem, suffix and text of an earlier run on the file

\* the state of one call of handle_file
callvars == << name, kind, pc, old_basename, tags_with_extension, match,
               num_errors, newpath >>

\* the command line options
optvars == << text, sep, prepend, smartprepend, dryrun >>

\* the state of the loop of main
mainvars == << args_files, args_kinds, loop_index, main_pc, main_num_errors,
               exit_status, handled >>

\* the directories and links of the file system (files is the rest of it)
fsvars == << dirs, links, sub_files >>

vars == << callvars, optvars, files, mainvars, fsvars, first >>

\* a local that is not bound, and the False that handle_file returns in
\* place of a path
Unset == << >>

\* one call of handle_file on its own: no loop of main around it, no
\* directory but the path's own and no symbolic link
NoMain ==
    /\ args_files = << >>
    /\ args_kinds = << >>
    /\ loop_index = 0
    /\ main_pc = "idle"
    /\ main_num_errors = Unset
    /\ exit_status = Unset
    /\ handled = {}
    /\ dirs = IF kind = "dir" THEN {name} ELSE {}
    /\ links = {}
    /\ sub_files = {}
    /\ first = Unset

\* main rejects --prepend together with --smart-prepend before any file is
\* handled; --dryrun makes no difference to a path that is skipped
Init ==
    /\ name \in Names
    /\ kind \in {"file", "dir", "none"}
    /\ text \in Texts
    /\ sep \in Seps
    /\ prepend \in BOOLEAN
    /\ smartprepend \in BOOLEAN
    /\ ~(prepend /\ smartprepend)
    /\ dryrun \in BOOLEAN
    /\ kind # "file" => ~dryrun
    /\ files = IF kind = "file" THEN {name} ELSE {}
    /\ pc = "call"
    /\ old_basename = Unset
    /\ tags_with_extension = Unset
    /\ match = NoMatch
    /\ num_errors = 0
    /\ newpath = Unset
    /\ NoMain

\* the name of newpath in the branch "if prepend" and in the fallback of
\* the branch "elif smartprepend"
PrependName(t, sp, basename, tags_ext) == t \o sp \o basename \o tags_ext

\* the separator that followed the timestamp kept where it was
SmartPrependNameKeepSeparator(t, sp, m) ==
    m[1] \o m[2] \o sp \o t \o sp \o m[Len(m)]

\* the name of newpath in the branch "elif smartprepend" when the
\* timestamp pattern matched: match.group(1), sep, text, sep, groups()[-1]
SmartPrependName(t, sp, m) == m[1] \o sp \o t \o sp \o m[Len(m)]

\* the text put after the tags and the extension instead of before them
AppendNameAtEnd(t, sp, basename, tags_ext) == basename \o tags_ext \o sp \o t

\* the separator put after the text instead of before it
AppendNameSeparatorLast(t, sp, basename, tags_ext) ==
    basename \o t \o sp \o tags_ext

\* the name of newpath in the branch "else" (append)
AppendName(t, sp, basename, tags_ext) == basename \o sp \o t \o tags_ext

\* the early returns of handle_file: one error, False in place of a path
ReturnError ==
    /\ pc' = "returned"
    /\ num_errors' = 1
    /\ newpath' = Unset
    /\ UNCHANGED << files, old_basename, tags_with_extension, match >>

\* handle_file(path, text, dryrun, sep, prepend, smartprepend)
handle_file ==
    /\ pc = "call"
    /\ UNCHANGED << name, kind, optvars, mainvars, fsvars, first >>
    /\ IF kind = "dir" THEN ReturnError
       ELSE IF kind # "file" THEN ReturnError
       ELSE LET components == FILE_WITH_EXTENSION_REGEX(name)
            IN IF components = NoMatch THEN ReturnError
               ELSE LET basename == components[FILE_WITH_EXTENSION_BASENAME_INDEX]
                        tags_ext == components[FILE_WITH_EXTENSION_TAGS_AND_EXT_INDEX]
                        m        == IF ~prepend /\ smartprepend
                                    THEN WITHTIME_AND_SECONDS_PATTERN(name)
                                    ELSE NoMatch
                        new      == IF prepend
                                    THEN PrependName(text, sep, basename, tags_ext)
                                    ELSE IF smartprepend
                                    THEN IF m # NoMatch
                                         THEN SmartPrependName(text, sep, m)
                                         ELSE PrependName(text, sep, basename, tags_ext)
                                    ELSE AppendName(text, sep, basename, tags_ext)
                    IN /\ old_basename' = basename
                       /\ tags_with_extension' = tags_ext
                       /\ match' = m
                       /\ IF dryrun
                          THEN \* newpath_created is read but was never bound
                               /\ pc' = "raised"
                               /\ UNCHANGED << files, num_errors, newpath >>
                          ELSE \* path.rename(newpath)
                               /\ files' = (files \ {name}) \cup {new}
                               /\ pc' = "returned"
                               /\ num_errors' = 0
                               /\ newpath' = new

Next == handle_file

Spec == Init /\ [][Next]_vars

\* values of --text of one character: a character that separates a
\* timestamp from the rest of a name, and a newline
OneCharTexts == { <<"_">>, <<NL>> }

\* one call of handle_file on a regular file, the text of any length
InitAnyText ==
    /\ name \in Names
    /\ kind = "file"
    /\ text \in Texts \cup OneCharTexts
    /\ sep \in Seps
    /\ prepend \in BOOLEAN
    /\ smartprepend \in BOOLEAN
    /\ ~(prepend /\ smartprepend)
    /\ dryrun = FALSE
    /\ files = {name}
    /\ pc = "call"
    /\ old_basename = Unset
    /\ tags_with_extension = Unset
    /\ match = NoMatch
    /\ num_errors = 0
    /\ newpath = Unset
    /\ NoMain

SpecAnyText == InitAnyText /\ [][Next]_vars

(***************************************************************************)
(* The program run a second time, on the file that the first run renamed.  *)
(***************************************************************************)
\* a name whose stem ends like the beginning of a tag separator
EdgeNames == { <<"a", " ", "-", "-">> }

AgainNames == ShortNames \cup ExampleNames \cup EdgeNames

\* values of --sep, a '.' among them
AgainSeps == Seps \cup { <<".">> }

\* the first run: append mode, on a regular file
InitAgain ==
    /\ name \in AgainNames
    /\ kind = "file"
    /\ text \in Texts \cup OneCharTexts
    /\ sep \in AgainSeps
    /\ prepend = FALSE
    /\ smartprepend = FALSE
    /\ dryrun = FALSE
    /\ files = {name}
    /\ pc = "call"
    /\ old_basename = Unset
    /\ tags_with_extension = Unset
    /\ match = NoMatch
    /\ num_errors = 0
    /\ newpath = Unset
    /\ NoMain

\* the second run: main is started again with the same options, another
\* text and the new name of the file; first keeps what the first run
\* parsed and added
second_run ==
    /\ pc = "returned"
    /\ num_errors = 0
    /\ main_pc = "idle"
    /\ first = Unset
    /\ first' = <<old_basename, tags_with_extension, text>>
    /\ name' = newpath
    /\ text' \in Texts
    /\ pc' = "call"
    /\ old_basename' = Unset
    /\ tags_with_extension' = Unset
    /\ match' = NoMatch
    /\ num_errors' = 0
    /\ newpath' = Unset
    /\ UNCHANGED << kind, sep, prepend, smartprepend, dryrun, files, mainvars,
                    fsvars >>

NextAgain == handle_file \/ second_run

SpecAgain == InitAgain /\ [][NextAgain]_vars

(***************************************************************************)
(* main: the loop over args.files, with the checks for symbolic links that *)
(* come before handle_file.                                                *)
(***************************************************************************)
\* the longest command line of the runs of the whole program
MaxFiles == 2

\* the names on those command lines: plain, with an extension, with a
\* newline inside (the file pattern does not match it) and timestamped
BatchNames ==
    { <<"a">>,
      <<"t", "e", "s", "t", ".", "t", "x", "t">>,
      <<"a", NL, "a">>,
      <<"2", "0", "2", "1", "1", "2", "3", "1", "_", "t", "e", "s", "t", ".", "t", "x", "t">> }

\* what a name of the command line is on disk: a regular file, a directory,
\* nothing, a symbolic link to nothing, or a symbolic link to a regular file
\* of the same base name in another directory
EntryKinds == {"file", "dir", "none", "broken", "link"}

\* the command lines: one to MaxFiles different names, each of some kind
Batches ==
    { b \in UNION { [1..n -> BatchNames \X EntryKinds] : n \in 1..MaxFiles } :
        \A i, j \in DOMAIN b : i # j => b[i][1] # b[j][1] }

\* the start of main's loop: the options are parsed, text is not empty, no
\* file is handled yet
InitBatch ==
    /\ \E b \in Batches :
          /\ args_files = [i \in DOMAIN b |-> b[i][1]]
          /\ args_kinds = [i \in DOMAIN b |-> b[i][2]]
          /\ files = {b[i][1] : i \in {j \in DOMAIN b : b[j][2] = "file"}}
          /\ dirs = {b[i][1] : i \in {j \in DOMAIN b : b[j][2] = "dir"}}
          /\ links = {<<b[i][1], b[i][1]>> :
                        i \in {j \in DOMAIN b : b[j][2] \in {"broken", "link"}}}
          /\ sub_files = {b[i][1] : i \in {j \in DOMAIN b : b[j][2] = "link"}}
    /\ text = <<"b", "o", "o", "k">>
    /\ sep = DEFAULT_TEXT_SEPARATOR
    /\ prepend \in BOOLEAN
    /\ smartprepend \in BOOLEAN
    /\ ~(prepend /\ smartprepend)
    /\ dryrun \in BOOLEAN
    /\ loop_index = 0
    /\ main_pc = "loop"
    /\ main_num_errors = Unset
    /\ exit_status = Unset
    /\ handled = {}
    /\ first = Unset
    /\ name = Unset
    /\ kind = "none"
    /\ pc = "idle"
    /\ old_basename = Unset
    /\ tags_with_extension = Unset
    /\ match = NoMatch
    /\ num_errors = 0
    /\ newpath = Unset

\* os.path.isfile(name), which follows symbolic links
isfile(n) ==
    n \in files \/ \E l \in links : l[1] = n /\ l[2] \in sub_files

\* is_broken_link(name): not a file, not a directory, and a link whose
\* target does not exist; reading the link of a path that is none raises
\* FileNotFoundError, which gives False
is_broken_link(n) ==
    /\ ~isfile(n)
    /\ n \notin dirs
    /\ \E l \in links : l[1] = n /\ l[2] \notin sub_files

\* is_nonbroken_symlink_file(filename): a file and a link
is_nonbroken_symlink_file(n) ==
    isfile(n) /\ \E l \in links : l[1] = n

\* an exception nobody catches ends the process with a traceback
Traceback ==
    /\ main_pc' = "raised"
    /\ exit_status' = <<1>>

\* one turn of "for filename in files" up to the call of handle_file.
\* A broken link: the message is built by adding a Path to a str, TypeError.
\* A link to a file: handle_file_and_symlink_source_if_found reads the
\* name filename, which it does not have, NameError.
main_loop ==
    /\ main_pc = "loop"
    /\ loop_index < Len(args_files)
    /\ loop_index' = loop_index + 1
    /\ LET filename == args_files[loop_index + 1]
       IN IF is_broken_link(filename)
          THEN /\ Traceback
               /\ UNCHANGED << callvars, handled >>
          ELSE IF is_nonbroken_symlink_file(filename)
          THEN /\ Traceback
               /\ UNCHANGED << callvars, handled >>
          ELSE /\ main_pc' = "handling"
               /\ name' = filename
               /\ kind' = IF filename \in dirs THEN "dir"
                           ELSE IF filename \in files THEN "file"
                           ELSE "none"
               /\ pc' = "call"
               /\ old_basename' = Unset
               /\ tags_with_extension' = Unset
               /\ match' = NoMatch
               /\ num_errors' = 0
               /\ newpath' = Unset
               /\ handled' = handled \cup {loop_index + 1}
               /\ UNCHANGED exit_status
    /\ UNCHANGED << optvars, files, fsvars, args_files, args_kinds,
                    main_num_errors, first >>

\* handle_file is over: "num_errors, new_filename = ..." when it returned,
\* the exception goes on through main when it raised
main_resume ==
    /\ main_pc = "handling"
    /\ pc \in {"returned", "raised"}
    /\ IF pc = "returned"
       THEN /\ main_num_errors' = <<num_errors>>
            /\ main_pc' = "loop"
            /\ UNCHANGED exit_status
       ELSE /\ Traceback
            /\ UNCHANGED main_num_errors
    /\ pc' = "idle"
    /\ UNCHANGED << name, kind, old_basename, tags_with_extension, match,
                    num_errors, newpath, optvars, files, fsvars, args_files,
                    args_kinds, loop_index, handled, first >>

\* after the loop: "if num_errors > 0: error_exit(4, ...)"
main_exit ==
    /\ main_pc = "loop"
    /\ loop_index = Len(args_files)
    /\ IF main_num_errors = Unset
       THEN Traceback
       ELSE /\ main_pc' = "exited"
            /\ exit_status' = IF main_num_errors[1] > 0 THEN <<4>> ELSE <<0>>
    /\ UNCHANGED << callvars, optvars, files, fsvars, args_files, args_kinds,
                    loop_index, main_num_errors, handled, first >>

NextBatch == main_loop \/ handle_file \/ main_resume \/ main_exit

SpecBatch == InitBatch /\ [][NextBatch]_vars

\* the process has ended
Ended == main_pc \in {"exited", "raised"}

\* names and texts of the examples
ReportPdf == <<"r", "e", "p", "o", "r", "t", " ", "-", "-", " ", "d", "r", "a", "f", "t", " ", "f", "i", "n", "a", "l", ".", "p", "d", "f">>

ReportNewPdf == <<"r", "e", "p", "o", "r", "t", " ", "n", "e", "w", " ", "-", "-", " ", "d", "r", "a", "f", "t", " ", "f", "i", "n", "a", "l", ".", "p", "d", "f">>

TextNew == <<"n", "e", "w">>

TextBook == <<"b", "o", "o", "k">>

(***************************************************************************)
(* Properties.                                                             *)
(***************************************************************************)
\* handle_file went through to the rename and returned
Renamed == pc = "returned" /\ num_errors = 0

AppendMode == ~prepend /\ ~smartprepend

\* the offsets at which the tag separator stands in s
TagSeparatorOffsets(s) ==
    {i \in 0..Len(s) : LiteralAt(s, i, FILENAME_TAG_SEPARATOR)}

\* C1: whenever handle_file has parsed a name, the stem followed by the
\* suffix is the name itself: no character is dropped, added or reordered.
C1_Lossless ==
    Renamed => old_basename \o tags_with_extension = name

\* C2: in append mode the new name is stem + separator + text + suffix for
\* the parse (stem, suffix) of the name, so that cutting separator + text
\* off just before the suffix gives back the stem; the file is renamed to
\* that name, and 'report -- draft final.pdf' with 'new' and ' ' becomes
\* 'report new -- draft final.pdf'.
C2_AppendCompose ==
    (Renamed /\ AppendMode) =>
        LET parsed == FILE_WITH_EXTENSION_REGEX(name)
            stem   == parsed[FILE_WITH_EXTENSION_BASENAME_INDEX]
            suffix == parsed[FILE_WITH_EXTENSION_TAGS_AND_EXT_INDEX]
            cut    == Len(newpath) - Len(suffix)
        IN /\ newpath = stem \o sep \o text \o suffix
           /\ Slice(newpath, cut, Len(newpath)) = suffix
           /\ Slice(newpath, cut - Len(sep \o text), cut) = sep \o text
           /\ Slice(newpath, 0, cut - Len(sep \o text)) = stem
           /\ files = {newpath}
           /\ (/\ name = ReportPdf
               /\ text = TextNew
               /\ sep = <<" ">>) => newpath = ReportNewPdf

\* C2 witness: the example of the claim has been renamed in append mode.
C2_Witness ==
    /\ Renamed /\ AppendMode
    /\ name = ReportPdf
    /\ text = TextNew
    /\ sep = <<" ">>
    /\ newpath = ReportNewPdf

\* C3: in prepend mode the new name is text + separator + stem + suffix,
\* which is text + separator + the complete original name; a leading
\* date/time-stamp stays where it is.
C3_PrependWholeName ==
    (Renamed /\ prepend) =>
        /\ newpath = text \o sep \o old_basename \o tags_with_extension
        /\ newpath = text \o sep \o name

\* C4: in smart-prepend mode, when a timestamp is detected the new name is
\* timestamp + separator + text + separator + rest, where rest is the name
\* after the timestamp and after the one character that followed it; when
\* none is detected the new name is the one prepend mode produces.
C4_SmartPrepend ==
    (Renamed /\ smartprepend) =>
        IF match # NoMatch
        THEN LET ts == match[1]
             IN /\ Slice(name, 0, Len(ts)) = ts
                /\ newpath = ts \o sep \o text \o sep
                                \o Slice(name, Len(ts) + 1, Len(name))
        ELSE newpath = PrependName(text, sep,
                 FILE_WITH_EXTENSION_REGEX(name)[FILE_WITH_EXTENSION_BASENAME_INDEX],
                 FILE_WITH_EXTENSION_REGEX(name)[FILE_WITH_EXTENSION_TAGS_AND_EXT_INDEX])

\* more names of the examples
TestDot == <<"t", "e", "s", "t", ".">>

TestDotBook == <<"t", "e", "s", "t", ".", " ", "b", "o", "o", "k">>

\* s has a final extension: a '.' followed by one or more word characters
\* that run to the end of s
HasFinalExtension(s) ==
    \E d \in 1..(Len(s) - 1) :
        s[d] = "." /\ \A k \in (d + 1)..Len(s) : s[k] \in WordChars

\* the final extension of s, from its last '.' to its end
FinalExtension(s) ==
    Slice(s, Max({d \in 1..Len(s) : s[d] = "."}) - 1, Len(s))

\* s without the one newline that may end it
WithoutFinalNewline(s) ==
    IF Len(s) > 0 /\ s[Len(s)] = NL THEN Slice(s, 0, Len(s) - 1) ELSE s

\* the name has no newline in it
NoNewline == \A k \in 1..Len(name) : name[k] # NL

\* C5 as stated: with a tag separator in the name, the stem is everything up
\* to the LAST occurrence of ' -- ' and the suffix starts there; without one
\* the suffix is the final extension, and it is empty when there is neither.
\* (Stated for the names without a newline, which is where the statement
\* and the pattern disagree about the tag separator.)
C5_LastTagSeparator ==
    (Renamed /\ NoNewline) =>
        IF TagSeparatorOffsets(name) # {}
        THEN LET at == Max(TagSeparatorOffsets(name))
             IN /\ old_basename = Slice(name, 0, at)
                /\ Slice(name, at, at + Len(tags_with_extension)) = tags_with_extension
        ELSE IF HasFinalExtension(name)
        THEN tags_with_extension = FinalExtension(name)
        ELSE tags_with_extension = << >>

\* C5 amended: with a tag separator in the name, the stem is everything up
\* to the FIRST occurrence of ' -- ' and the suffix starts there; without one
\* the suffix is the final extension, and it is empty when there is neither
\* (a newline that ends the name is not part of what the pattern looks at).
C5_FirstTagSeparator ==
    Renamed =>
        IF TagSeparatorOffsets(name) # {}
        THEN LET at == Min(TagSeparatorOffsets(name))
             IN /\ old_basename = Slice(name, 0, at)
                /\ Slice(name, at, at + Len(tags_with_extension)) = tags_with_extension
                /\ Len(tags_with_extension) >= Len(FILENAME_TAG_SEPARATOR)
        ELSE IF HasFinalExtension(WithoutFinalNewline(name))
        THEN tags_with_extension = FinalExtension(WithoutFinalNewline(name))
        ELSE tags_with_extension = << >>

\* C5 witness: a name with two tag separators has been split at the first.
C5_Witness ==
    /\ Renamed
    /\ Cardinality(TagSeparatorOffsets(name)) >= 2
    /\ Len(old_basename) = Min(TagSeparatorOffsets(name))
    /\ Len(old_basename) > 0

\* s ends in a bare '.'
EndsInDot(s) == Len(s) > 0 /\ s[Len(s)] = "."

\* C6 as stated: for a name that ends in a bare '.', the suffix contains that
\* dot and the stem does not, so append puts separator + text before the dot.
C6_TrailingDotInSuffix ==
    (Renamed /\ EndsInDot(name)) =>
        /\ EndsInDot(tags_with_extension)
        /\ old_basename \o tags_with_extension = name
        /\ AppendMode => newpath = Slice(name, 0, Len(old_basename)) \o sep \o text
                                     \o tags_with_extension

\* C6 amended: for a name that ends in a bare '.' and has no tag separator,
\* the suffix is empty and the stem is the whole name with its dot, so append
\* puts separator + text after the dot; only a tag block (from the first
\* ' -- ' on) takes a final dot into the suffix.
C6_TrailingDotInStem ==
    (Renamed /\ EndsInDot(name)) =>
        IF TagSeparatorOffsets(name) = {}
        THEN /\ old_basename = name
             /\ tags_with_extension = << >>
             /\ AppendMode => newpath = name \o sep \o text
        ELSE /\ tags_with_extension = Slice(name, Min(TagSeparatorOffsets(name)), Len(name))
             /\ EndsInDot(tags_with_extension)

\* C6 witness: 'test.' has been renamed to 'test. book' in append mode.
C6_Witness ==
    /\ Renamed /\ AppendMode
    /\ name = TestDot
    /\ text = TextBook
    /\ sep = <<" ">>
    /\ newpath = TestDotBook

\* PurePath.suffix of a name: from the last '.' on, unless there is none or
\* it is the first or the last character
PathSuffix(s) ==
    LET dots == {k \in 1..Len(s) : s[k] = "."}
    IN IF dots = {} THEN << >>
       ELSE IF Max(dots) = 1 \/ Max(dots) = Len(s) THEN << >>
       ELSE Slice(s, Max(dots) - 1, Len(s))

\* PurePath.stem of a name: the name without its suffix
PathStem(s) == Slice(s, 0, Len(s) - Len(PathSuffix(s)))

\* C7: for a name without tag separator, append gives the name the oracle of
\* test_append_sep_notags expects: path stem + separator + text + path suffix.
\* (Stated for the names without a newline: the disagreement does not need
\* one.)
C7_TestOracle ==
    (Renamed /\ AppendMode /\ NoNewline /\ TagSeparatorOffsets(name) = {}) =>
        newpath = PathStem(name) \o sep \o text \o PathSuffix(name)

\* the separator characters as C8 lists them
SixSeparators == {" ", "_", "-", ".", ":", "T"}

\* the separator characters of the pattern's class
FourSeparators == {" ", "_", "-", "."}

\* the end offsets of the prefixes of s that have one of the timestamp
\* shapes (date with or without time portion, YYYYMMDD, YYYY-MM, YYMMDD)
ShapeEnds(s) == {TimestampEnds(s)[n] : n \in 1..Len(TimestampEnds(s))}

\* s is a timestamp (its longest prefix that has a shape, up to offset e),
\* one character of the set seps, and a rest that starts with a character
\* other than a newline
StampThenSeparator(s, e, seps) ==
    /\ ShapeEnds(s) # {}
    /\ e = Max(ShapeEnds(s))
    /\ In(s, e + 1, seps)
    /\ e + 2 <= Len(s) /\ s[e + 2] # NL

\* C8 as stated: the character after the timestamp is accepted as its
\* separator, and left out of rest, when it is one of space, underscore,
\* hyphen, dot, colon or 'T': a name timestamp + character + rest is detected
\* as having that timestamp for each of the six.
C8_SixSeparators ==
    (Renamed /\ smartprepend) =>
        \A e \in 0..Len(name) :
            StampThenSeparator(name, e, SixSeparators) =>
                /\ match # NoMatch
                /\ match[1] = Slice(name, 0, e)
                /\ match[2] = << name[e + 1] >>

\* C8 amended: the character after the timestamp is accepted as its
\* separator, and left out of rest, when it is one of space, underscore,
\* hyphen or dot: a name timestamp + character + rest (timestamp the longest
\* prefix that has a shape, rest not starting with a newline) is detected as
\* having that timestamp for each of the four, and is not for a colon or a
\* 'T'; a detected separator is always one of the four, and rest starts
\* right after it.
C8_FourSeparators ==
    (Renamed /\ smartprepend) =>
        /\ \A e \in 0..Len(name) :
            /\ StampThenSeparator(name, e, FourSeparators) =>
                /\ match # NoMatch
                /\ match[1] = Slice(name, 0, e)
                /\ match[2] = << name[e + 1] >>
            /\ StampThenSeparator(name, e, {":", "T"}) =>
                \/ match = NoMatch
                \/ match[1] # Slice(name, 0, e)
        /\ match # NoMatch =>
            /\ match[2][1] \in FourSeparators
            /\ match[2][1] = name[Len(match[1]) + 1]
            /\ match[3] # << >>
            /\ LiteralAt(name, 0, match[1] \o match[2] \o match[3])

\* C8 witness: a hyphen after a complete timestamp has been taken as its
\* separator and replaced by the user's separator.
C8_Witness ==
    /\ Renamed /\ smartprepend
    /\ match # NoMatch
    /\ match[2] = <<"-">>
    /\ StampThenSeparator(name, Len(match[1]), FourSeparators)
    /\ sep = <<"_">>
    /\ newpath = match[1] \o <<"_">> \o text \o <<"_">> \o match[3]

\* the shape (1 date with optional time, 2 YYYYMMDD, 3 YYYY-MM, 4 YYMMDD) of
\* a timestamp, which its length tells
ShapeOf(ts) ==
    IF Len(ts) >= 10 THEN 1 ELSE IF Len(ts) = 8 THEN 2
    ELSE IF Len(ts) = 7 THEN 3 ELSE 4

\* the first shape, in the order of the alternation, that a prefix of s has
FirstShape(s) ==
    IF DateAt(s) THEN 1 ELSE IF RE_YYYYMMDD(s) # << >> THEN 2
    ELSE IF RE_YYYYdashMM(s) # << >> THEN 3 ELSE 4

\* C9: the timestamp that is reported for a name is a match of the first
\* shape, in the order 1..4, that matches a prefix of the name; a later
\* shape is never reported when an earlier one matches a prefix.
C9_FirstShapeWins ==
    (Renamed /\ smartprepend /\ match # NoMatch) =>
        ShapeOf(match[1]) = FirstShape(name)

\* the introducers of the time portion as C10 lists them
StatedIntroducers == {"T", ":", "_", "-"}

\* the introducers of the time portion in the pattern's class
FiveIntroducers == {"T", " ", ":", "_", "-"}

\* HH, a delimiter and MM stand at the positions a+1 .. a+5 of s
ClockAt(s, a) ==
    /\ In(s, a + 1, {"0", "1", "2"}) /\ In(s, a + 2, Digits)
    /\ In(s, a + 3, {":", ".", "-"})
    /\ In(s, a + 4, {"0", "1", "2", "3", "4", "5"}) /\ In(s, a + 5, Digits)

\* a delimiter and SS stand at the positions a+1 .. a+3 of s
ClockSecondsAt(s, a) ==
    /\ In(s, a + 1, {":", ".", "-"})
    /\ In(s, a + 2, {"0", "1", "2", "3", "4", "5"}) /\ In(s, a + 3, Digits)

\* a separator character and a character other than a newline follow
\* offset e of s
SeparatorAndMore(s, e) ==
    In(s, e + 1, FourSeparators) /\ e + 2 <= Len(s) /\ s[e + 2] # NL

\* C10 as stated: after YYYY-MM-DD a time portion is part of the timestamp
\* only when it is introduced by one of 'T', ':', '_', '-'; with any other
\* character after the date (a space, say) the timestamp is the date alone
\* and that character is its separator.  (The second half is stated for the
\* characters that can be a separator at all.)
C10_StatedIntroducers ==
    (Renamed /\ smartprepend /\ DateAt(name) /\ Len(name) > 11) =>
        /\ (match # NoMatch /\ Len(match[1]) > 10) =>
                name[11] \in StatedIntroducers
        /\ (/\ name[11] \notin StatedIntroducers
            /\ name[11] \in FourSeparators
            /\ name[12] # NL) =>
                /\ match # NoMatch
                /\ match[1] = Slice(name, 0, 10)
                /\ match[2] = << name[11] >>

\* C10 amended: after YYYY-MM-DD a time portion is part of the timestamp
\* only when it is introduced by one of 'T', ' ', ':', '_', '-' and is HH,
\* one of ':', '.', '-', MM and optionally one of ':', '.', '-' and SS; such
\* a time portion (a space introducing it included) is part of the timestamp
\* when a separator character and a further character other than a newline
\* follow it.  When the timestamp is the date alone, the character after the
\* date is one of the separators space, '_', '-', '.'; after any character
\* that is neither an introducer nor a separator the date is not detected.
C10_TimePortion ==
    (Renamed /\ smartprepend /\ DateAt(name)) =>
        /\ (match # NoMatch /\ Len(match[1]) > 10) =>
            /\ name[11] \in FiveIntroducers
            /\ ClockAt(name, 11)
            /\ \/ Len(match[1]) = 16
               \/ Len(match[1]) = 19 /\ ClockSecondsAt(name, 16)
        /\ (In(name, 11, FiveIntroducers) /\ ClockAt(name, 11)) =>
            /\ (ClockSecondsAt(name, 16) /\ SeparatorAndMore(name, 19)) =>
                    (match # NoMatch /\ Len(match[1]) = 19)
            /\ (~(ClockSecondsAt(name, 16) /\ SeparatorAndMore(name, 19))
                  /\ SeparatorAndMore(name, 16)) =>
                    (match # NoMatch /\ Len(match[1]) = 16)
        /\ (match # NoMatch /\ Len(match[1]) = 10) =>
            /\ name[11] \in FourSeparators
            /\ match[2] = << name[11] >>
        /\ (Len(name) > 10 /\ name[11] \notin FiveIntroducers \cup FourSeparators) =>
            (match = NoMatch \/ Len(match[1]) < 10)

\* C10 witness: a time portion introduced by a space has become part of the
\* detected timestamp.
C10_Witness ==
    /\ Renamed /\ smartprepend
    /\ match # NoMatch
    /\ Len(match[1]) = 16
    /\ match[1][11] = " "
    /\ newpath = match[1] \o sep \o text \o sep \o match[3]

\* C11 as stated: whatever the name, the separator and the mode, a text that
\* is not empty makes the new name differ from the name.  (Stated for names
\* and texts without a newline, so that the run that refutes it shows the
\* timestamp separator and not the newline that the pattern drops.)
C11_AlwaysDiffers ==
    (Renamed /\ NoNewline /\ text # <<NL>>) => newpath # name

\* the text is the one character that follows the detected timestamp, it
\* is put back in its place with nothing around it
TextIsTimestampSeparator ==
    /\ smartprepend
    /\ match # NoMatch
    /\ sep = << >>
    /\ text = <<name[Len(match[1]) + 1]>>
    /\ NoNewline

\* the text is the newline that ends the name and that the parse dropped
TextIsDroppedNewline ==
    /\ sep = << >>
    /\ text = <<NL>>
    /\ Len(name) > 0
    /\ name[Len(name)] = NL
    /\ IF AppendMode THEN tags_with_extension = << >> ELSE name = <<NL>>

\* C11 amended: the new name differs from the name except in two cases, in
\* which it is equal to it: smart-prepend with a detected timestamp, an
\* empty separator and a text that is the one character following the
\* timestamp (in a name without newline); and an empty separator with a
\* text that is a single newline, on a name that ends in a newline, in
\* append mode when the parsed suffix is empty and in the prepending modes
\* when the name is that newline alone.
C11_DiffersButFor ==
    Renamed =>
        (newpath = name <=> (TextIsTimestampSeparator \/ TextIsDroppedNewline))

\* smart-prepend of '_' with an empty separator on '20211231_test.txt'
\* renames the file to the name it has
C11_Witness ==
    /\ Renamed
    /\ smartprepend
    /\ sep = << >>
    /\ text = <<"_">>
    /\ name = <<"2", "0", "2", "1", "1", "2", "3", "1", "_", "t", "e", "s", "t", ".", "t", "x", "t">>
    /\ newpath = name

\* C12: the file pattern matches every name, so for an existing regular
\* file handle_file never takes the branch that reports that the name could
\* not be parsed: it never returns one error for such a file.
C12_AlwaysParses ==
    (kind = "file" /\ pc = "returned") =>
        /\ FILE_WITH_EXTENSION_REGEX(name) # NoMatch
        /\ num_errors = 0

\* the name of argument i of the command line is one the file pattern matches
Parsable(i) == FILE_WITH_EXTENSION_REGEX(args_files[i]) # NoMatch

\* argument i failed: a directory, not an existing file, or a regular file
\* whose name could not be parsed
FailedArgument(i) ==
    \/ args_kinds[i] \in {"dir", "none"}
    \/ args_kinds[i] = "file" /\ ~Parsable(i)

\* C13: when at least one file of the command line failed, the process ends
\* with a status that is not 0, wherever the failing file stands in the list
\* and whatever becomes of the files after it.
C13_ExitStatusReflectsFailure ==
    (Ended /\ \E i \in DOMAIN args_files : FailedArgument(i)) =>
        exit_status # <<0>>

\* C14: a file that fails or is skipped (a directory, a path that does not
\* exist, a broken symbolic link) does not block the rest: when the process
\* has ended, handle_file was called for every regular file that stands
\* after it on the command line.
C14_BestEffort ==
    Ended =>
        \A i, j \in DOMAIN args_files :
            ( /\ i < j
              /\ args_kinds[i] \in {"dir", "none", "broken"}
              /\ args_kinds[j] = "file" ) => j \in handled

\* the name that the parse and the composition of the mode give for n
ComposedName(n) ==
    LET c == FILE_WITH_EXTENSION_REGEX(n)
        m == WITHTIME_AND_SECONDS_PATTERN(n)
    IN IF prepend THEN PrependName(text, sep, c[1], c[2])
       ELSE IF smartprepend /\ m # NoMatch THEN SmartPrependName(text, sep, m)
       ELSE IF smartprepend THEN PrependName(text, sep, c[1], c[2])
       ELSE AppendName(text, sep, c[1], c[2])

\* C15: when the first file of the command line is a symbolic link to a
\* regular file of the same base name, the run (without --dryrun) ends with
\* the target renamed by the same parse and composition, and with the link
\* under its new name pointing at the renamed target; neither is left
\* under its old name.
C15_SymlinkCoRename ==
    (Ended /\ ~dryrun /\ args_kinds[1] = "link" /\ Parsable(1)) =>
        LET old == args_files[1]
            new == ComposedName(old)
        IN /\ new \in sub_files
           /\ <<new, new>> \in links
           /\ old \notin sub_files \/ old = new
           /\ \A l \in links : l[1] = old => old = new

\* C16: with --dryrun, handle_file on an existing regular file renames
\* nothing and returns normally with no error; a command line of regular
\* files is simulated to its end, the process exits with status 0 and the
\* directory is as it was.
C16_DryRunSimulates ==
    /\ (dryrun /\ kind = "file" /\ pc \in {"returned", "raised"}
            /\ FILE_WITH_EXTENSION_REGEX(name) # NoMatch) =>
          (pc = "returned" /\ num_errors = 0 /\ name \in files)
    /\ (Ended /\ dryrun
            /\ \A i \in DOMAIN args_files :
                  args_kinds[i] = "file" /\ Parsable(i)) =>
          /\ main_pc = "exited"
          /\ exit_status = <<0>>
          /\ handled = DOMAIN args_files
          /\ files = {args_files[i] : i \in DOMAIN args_files}

\* a valid suffix: empty, or a '.' and one or more word characters, or a
\* string that begins with the tag separator
ValidSuffix(r) ==
    \/ r = << >>
    \/ Len(r) >= 2 /\ r[1] = "." /\ \A k \in 2..Len(r) : r[k] \in WordChars
    \/ LiteralAt(r, 0, FILENAME_TAG_SEPARATOR)

\* C17: for a name the pattern matches, the stem is the shortest prefix of
\* the name whose remainder is a valid suffix, and the suffix is that
\* remainder, the longest valid suffix of the name.
C17_EarliestSplit ==
    Renamed =>
        LET i == Len(old_basename)
        IN /\ old_basename = Slice(name, 0, i)
           /\ tags_with_extension = Slice(name, i, Len(name))
           /\ ValidSuffix(Slice(name, i, Len(name)))
           /\ \A j \in 0..(i - 1) : ~ValidSuffix(Slice(name, j, Len(name)))

\* s ends with r
EndsWith(s, r) ==
    Len(r) <= Len(s) /\ Slice(s, Len(s) - Len(r), Len(s)) = r

\* C18: in every mode, smart-prepend with a detected timestamp included,
\* the new name ends with the parsed suffix (tag block and extension) of
\* the original name, unchanged.
C18_SuffixKept ==
    Renamed => EndsWith(newpath, tags_with_extension)

\* s has no '.', no '-' and no newline
Plain(s) == \A k \in 1..Len(s) : s[k] \notin {".", "-", NL}

\* the second run has returned
SecondRunOver == first # Unset /\ pc = "returned"

\* the second run parsed the renamed file into stem + sep + a and the
\* suffix of the first run, and renamed it to stem + sep + a + sep + b +
\* suffix
Accumulated ==
    LET stem   == first[1]
        suffix == first[2]
        a      == first[3]
    IN /\ num_errors = 0
       /\ old_basename = stem \o sep \o a
       /\ tags_with_extension = suffix
       /\ newpath = stem \o sep \o a \o sep \o text \o suffix

\* C19 as stated: for every separator and all texts a and b without '.',
\* '-' and newline, append with a and then append with b on the resulting
\* name gives stem + sep + a + sep + b + suffix.
C19_AppendTwice ==
    (SecondRunOver /\ Plain(first[3]) /\ Plain(text)) => Accumulated

\* the stem ends in ' --' and what is added begins with a space: together
\* they make a tag separator
MakesTagSeparator ==
    /\ EndsWith(first[1], <<" ", "-", "-">>)
    /\ (sep \o first[3])[1] = " "

\* the name ended in a bare '.' and what is added is word characters only:
\* together they make an extension
MakesExtension ==
    /\ first[2] = << >>
    /\ EndsInDot(first[1])
    /\ \A k \in 1..Len(sep \o first[3]) : (sep \o first[3])[k] \in WordChars

\* C19 amended: for texts a and b and a separator that all have no '.',
\* no '-' and no newline, append with a and then with b gives
\* stem + sep + a + sep + b + suffix, except when the first run made a new
\* suffix: the stem ends in ' --' and sep + a begins with a space, or the
\* suffix is empty, the stem ends in '.' and sep + a is word characters
\* only.  In those two cases the second run splits the name earlier and the
\* result differs.
C19_AppendTwiceButFor ==
    (SecondRunOver /\ Plain(first[3]) /\ Plain(text) /\ Plain(sep)) =>
        (Accumulated <=> ~(MakesTagSeparator \/ MakesExtension))

\* 'test.txt' with 'book' and then 'new' becomes 'test book new.txt'
C19_Witness ==
    /\ SecondRunOver
    /\ first = << <<"t", "e", "s", "t">>, <<".", "t", "x", "t">>, TextBook >>
    /\ text = TextNew
    /\ sep = DEFAULT_TEXT_SEPARATOR
    /\ newpath = <<"t", "e", "s", "t", " ", "b", "o", "o", "k", " ", "n", "e", "w", ".", "t", "x", "t">>

====
